---- MODULE Spec2Model ----
(***************************************************************************)
(* Model of the Aqua check, aqua/datadog_checks/aqua/aqua.py:              *)
(* AquaCheck.check and the methods it calls, run by the agent's scheduler  *)
(* once per poll cycle and per configured instance.                        *)
(*                                                                         *)
(* A Python dict is a function whose DOMAIN is its key set, a list is a    *)
(* sequence, a formatted tag 'severity:%s' % x is the pair                 *)
(* <<"severity", x>>, a joined URL is the pair <<base, path>> and the      *)
(* header value 'Bearer ' + token is the pair <<"Bearer", token>>.         *)
(***************************************************************************)
EXTENDS Integers, Sequences, FiniteSets

\* ------------------------------------------------------------- bounds

\* Poll cycles the scheduler runs for the instance of the sequential
\* specification Spec.
MaxCycles == 2

\* Poll cycles the scheduler runs for each instance of the concurrent
\* specification SpecConc.
ConcCycles == 2

\* The instances (configured targets) the scheduler knows.
Inst == {"a", "b"}

\* ------------------------------------------------- program constants

\* aqua.py:24
SERVICE_CHECK_NAME == "aqua.can_connect"

\* aqua.py:11-17, in insertion order
SEVERITIES ==
    << <<"total", "all">>, <<"high", "high">>, <<"medium", "medium">>,
       <<"ok", "ok">>, <<"low", "low">> >>

DASHBOARD == "/api/v1/dashboard"
HOSTS == "/api/v1/hosts"
AUDIT == "/api/v1/audit/access_totals?alert=-1&limit=100&time=hour&type=all"
SCANQUEUE == "/api/v1/scanqueue/summary"
LOGIN == "/api/v1/login"

Routes == {DASHBOARD, HOSTS, AUDIT, SCANQUEUE}

\* status_metrics with its two entries in the other order
status_metrics_swapped ==
    << [metric_name |-> "aqua.scan_queue", route |-> SCANQUEUE,
        statuses |-> << <<"total", "all">>, <<"failed", "failed">>,
                        <<"in_progress", "in_progress">>,
                        <<"finished", "finished">>,
                        <<"pending", "pending">> >>],
       [metric_name |-> "aqua.audit.access", route |-> AUDIT,
        statuses |-> << <<"total", "all">>, <<"success", "success">>,
                        <<"blocked", "blocked">>, <<"detect", "detect">>,
                        <<"alert", "alert">> >>] >>

\* aqua.py:40-68: (metric_name, route, statuses), in list order
status_metrics ==
    << [metric_name |-> "aqua.audit.access", route |-> AUDIT,
        statuses |-> << <<"total", "all">>, <<"success", "success">>,
                        <<"blocked", "blocked">>, <<"detect", "detect">>,
                        <<"alert", "alert">> >>],
       [metric_name |-> "aqua.scan_queue", route |-> SCANQUEUE,
        statuses |-> << <<"total", "all">>, <<"failed", "failed">>,
                        <<"in_progress", "in_progress">>,
                        <<"finished", "finished">>,
                        <<"pending", "pending">> >>] >>

\* aqua.py:6: `from six.moves.urllib.parse import urlparse` binds the name
\* urlparse to the function urlparse(), not to a module: the object has the
\* attributes of a function and no urljoin.
urlparse == [kind |-> "function", attrs |-> {"__name__", "__doc__", "__call__"}]

HasAttr(obj, name) == name \in obj.attrs

\* The absent token (Python's None / an unbound local).
NoToken == 0

\* ------------------------------------------------------------- state

VARIABLES
    instance,     \* instance[i]: the config dict the scheduler passes to check()
    upstream,     \* upstream[route]: how the server's endpoint behaves
    grants,       \* grants[t]: the (instance, cycle) whose login got token t
    runsLeft,     \* runsLeft[i]: cycles the scheduler will still start for i
    cycle,        \* cycle[i]: number of the current cycle of i (0: none yet)
    pc,           \* pc[i]: where check() stands
    token,        \* token[i]: the local variable token of check()
    idx,          \* idx[i]: position of the loop over status_metrics
    loginRes,     \* loginRes[i]: the server's answer to this cycle's login
    result,       \* result[i]: how the cycle ended
    trace,        \* trace[i]: the events of the current cycle, in order
    startConfig,  \* startConfig[i]: instance[i] as the cycle received it
    prev          \* prev[i]: what the previous cycle of i was given and emitted

vars == <<instance, upstream, grants, runsLeft, cycle, pc, token, idx, loginRes,
          result, trace, startConfig, prev>>

\* ------------------------------------------------------- environment

\* The instance configs the scheduler may hand to check(): the full config
\* of an instance, with or without the optional tags, and the full config
\* with one required key left out.
FullConfig(i) ==
    [k \in {"url", "api_user", "password", "tags"} |->
        CASE k = "url" -> <<"https://aqua", i>>
          [] k = "api_user" -> <<"user", i>>
          [] k = "password" -> <<"secret", i>>
          [] OTHER -> << <<"env", i>> >>]

Without(d, k) == [x \in DOMAIN d \ {k} |-> d[x]]

Configs(i) ==
    {FullConfig(i), Without(FullConfig(i), "tags")}
        \cup {Without(FullConfig(i), k) : k \in {"url", "api_user", "password"}}
        \cup {Without(Without(FullConfig(i), "tags"), "password")}

\* What the login endpoint may answer to one POST.
LoginOutcomes == {"ok", "http_401", "timeout", "no_token"}

\* What a data endpoint answers for the whole run: a 200 with the complete
\* body, a 200 with a second complete body, a 200 whose body lacks an
\* expected field, an HTTP 500, or no answer within the timeout.
Behaviours(route) ==
    {"ok", "nofield", "http_500", "timeout"}
        \cup (IF route = DASHBOARD THEN {"ok2"} ELSE {})

Counts(t, h, m, o, l) == [total |-> t, high |-> h, medium |-> m, ok |-> o, low |-> l]

DashboardBody(b) ==
    [registry_counts |->
        [images |-> IF b = "ok" THEN Counts(10, 2, 3, 4, 1) ELSE Counts(0, 0, 0, 0, 0),
         vulnerabilities |->
            IF b = "nofield"
            THEN [total |-> 20, high |-> 5, medium |-> 6, ok |-> 7]
            ELSE IF b = "ok" THEN Counts(20, 5, 6, 7, 2) ELSE Counts(9, 9, 0, 0, 0)],
     running_containers |->
        IF b = "ok" THEN [total |-> 50, unregistered |-> 5]
                    ELSE [total |-> 3, unregistered |-> 3],
     hosts |-> [disconnected_count |-> IF b = "ok" THEN 1 ELSE 0]]

HostsBody(b) ==
    IF b = "nofield" THEN [total |-> 7]
    ELSE [count |-> IF b = "ok" THEN 7 ELSE 0]

AuditBody(b) ==
    IF b = "nofield"
    THEN [total |-> 8, success |-> 5, blocked |-> 1, detect |-> 2]
    ELSE IF b = "ok"
         THEN [total |-> 8, success |-> 5, blocked |-> 1, detect |-> 2, alert |-> 0]
         ELSE [total |-> 1, success |-> 0, blocked |-> 1, detect |-> 0, alert |-> 0]

ScanQueueBody(b) ==
    IF b = "nofield"
    THEN [total |-> 6, failed |-> 1, in_progress |-> 2, finished |-> 3]
    ELSE IF b = "ok"
         THEN [total |-> 6, failed |-> 1, in_progress |-> 2, finished |-> 3, pending |-> 0]
         ELSE [total |-> 0, failed |-> 0, in_progress |-> 0, finished |-> 0, pending |-> 0]

Body(route, b) ==
    CASE route = DASHBOARD -> DashboardBody(b)
      [] route = HOSTS -> HostsBody(b)
      [] route = AUDIT -> AuditBody(b)
      [] OTHER -> ScanQueueBody(b)

\* The response the server gives to a GET of route.
Response(route, b) ==
    [answered |-> b # "timeout",
     status |-> IF b = "http_500" THEN 500 ELSE 200,
     body |-> Body(route, b)]

\* ------------------------------------------------------------ events

\* One thing a cycle does that the outside can see, in the order done:
\*   "POST", "GET"      an HTTP request sent (url, auth header)
\*   "query"            a call of _perform_query (route in name, the
\*                      Authorization header it built in auth)
\*   "service_check"    name, status in text, tags
\*   "gauge"            name, value, tags
\*   "log"              an error logged, the handler's message in name and
\*                      the metric name it formats in, if any, in text
Ev(ev, name, text, value, tags, url, auth) ==
    [ev |-> ev, name |-> name, text |-> text, value |-> value, tags |-> tags,
     url |-> url, auth |-> auth]

GaugeEv(name, value, tags) == Ev("gauge", name, "", value, tags, <<>>, <<>>)

LogEv(msg, arg) == Ev("log", msg, arg, 0, <<>>, <<>>, <<>>)

ServiceCheckEv(status, tags) ==
    Ev("service_check", SERVICE_CHECK_NAME, status, 0, tags, <<>>, <<>>)

\* ----------------------------------------------------- pure functions

\* instance_tags that ignores the configured tags
instance_tags_dropped(inst) == <<>>

\* instance.get("tags", [])                          aqua.py:27, 119, ...
instance_tags(inst) == IF "tags" \in DOMAIN inst THEN inst["tags"] ELSE <<>>

\* instance.get('tags', []) + [tag]
gauge_tags(inst, tag) == instance_tags(inst) \o <<tag>>

\* validate_instance that does not look for url
validate_instance_no_url(inst) ==
    \E x \in {"api_user", "password"} : x \notin DOMAIN inst

\* validate_instance: TRUE when it raises                      aqua.py:73-78
validate_instance(inst) ==
    \E x \in {"api_user", "password", "url"} : x \notin DOMAIN inst

\* get_aqua_token that reads the token with .get('token'): a response
\* without a token raises nothing
get_aqua_token_lenient(inst, outcome, fresh) ==
    IF \E x \in {"api_user", "password", "url"} : x \notin DOMAIN inst
    THEN [sent |-> <<>>, exc |-> "KeyError", token |-> NoToken]
    ELSE [sent |-> <<Ev("POST", "login", "", 0, <<>>, <<inst["url"], LOGIN>>, <<>>)>>,
          exc |-> CASE outcome = "timeout" -> "Timeout"
                    [] outcome = "http_401" -> "HTTPError"
                    [] OTHER -> "",
          token |-> IF outcome = "ok" THEN fresh ELSE NoToken]

\* get_aqua_token: the POST it sends, if it gets that far, and what it
\* raises (exc, "" for none) or returns (token). outcome is the server's
\* answer to the POST and fresh the token the server would grant.
\*                                                             aqua.py:80-93
get_aqua_token(inst, outcome, fresh) ==
    IF \E x \in {"api_user", "password"} : x \notin DOMAIN inst
    THEN \* line 85: data = {"id": instance['api_user'], ...}
         [sent |-> <<>>, exc |-> "KeyError", token |-> NoToken]
    ELSE IF "url" \notin DOMAIN inst
    THEN \* line 87: instance['url'] is evaluated before the call
         [sent |-> <<>>, exc |-> "KeyError", token |-> NoToken]
    ELSE [sent |-> <<Ev("POST", "login", "", 0, <<>>, <<inst["url"], LOGIN>>, <<>>)>>,
          exc |-> CASE outcome = "timeout" -> "Timeout"       \* requests.post raises
                    [] outcome = "http_401" -> "HTTPError"    \* raise_for_status
                    [] outcome = "no_token" -> "KeyError"     \* [...]['token']
                    [] OTHER -> "",
          token |-> IF outcome = "ok" THEN fresh ELSE NoToken]

\* auth_header that reads a token kept in one place for all instances,
\* the one granted last
auth_header_shared(tkn) == <<"Bearer", Len(grants)>>

\* The value of the Authorization header, 'Bearer ' + token   aqua.py:99
auth_header(tkn) == <<"Bearer", tkn>>

\* _perform_query: the events of the call, and what it raises (exc) or
\* returns (value). served is the behaviour of the route's endpoint.
perform_query(inst, route, tkn, served) ==
    LET headers == auth_header(tkn)
        called == Ev("query", route, "", 0, <<>>, <<>>, headers)
        res == Response(route, served)
    IN  IF ~HasAttr(urlparse, "urljoin")
        THEN \* line 100: urlparse.urljoin raises before requests.get is called
             [events |-> <<called>>, exc |-> "AttributeError", value |-> <<>>]
        ELSE LET get == Ev("GET", route, "", 0, <<>>, <<inst["url"], route>>, headers)
             IN  IF ~res.answered
                 THEN [events |-> <<called, get>>, exc |-> "Timeout", value |-> <<>>]
                 ELSE IF res.status >= 400
                 THEN [events |-> <<called, get>>, exc |-> "HTTPError", value |-> <<>>]
                 ELSE [events |-> <<called, get>>, exc |-> "", value |-> res.body]

\* A handler's result: the events it produced and the exception that
\* escapes it ("" when it returns).
Returned(events) == [events |-> events, exc |-> ""]

Raised(events, exc) == [events |-> events, exc |-> exc]

\* r, then the steps of next unless r raised
AndThen(r, next) ==
    IF r.exc # "" THEN r ELSE [events |-> r.events \o next.events, exc |-> next.exc]

\* for key in table: self.gauge(metric_name, d[key], tags=... + ['dim:ext'])
\* table lists the (key, ext) pairs of the dict in iteration order; the
\* gauges before a missing key are emitted, then KeyError is raised.
RECURSIVE gauge_each(_, _, _, _, _)
gauge_each(metric_name, d, table, dim, inst) ==
    IF table = <<>> THEN Returned(<<>>)
    ELSE LET key == Head(table)[1]
             ext == Head(table)[2]
         IN  IF key \notin DOMAIN d THEN Raised(<<>>, "KeyError")
             ELSE AndThen(
                    Returned(<<GaugeEv(metric_name, d[key], gauge_tags(inst, <<dim, ext>>))>>),
                    gauge_each(metric_name, d, Tail(table), dim, inst))

\* d[k1][k2], or KeyError
HasPath(d, k1, k2) == k1 \in DOMAIN d /\ k2 \in DOMAIN d[k1]

\* aqua.py:114-126: the images or vulnerabilities block
registry_block(metric_name, metrics, family, inst) ==
    IF ~HasPath(metrics, "registry_counts", family) THEN Raised(<<>>, "KeyError")
    ELSE gauge_each(metric_name, metrics["registry_counts"][family], SEVERITIES,
                    "severity", inst)

\* aqua.py:128-138: the running containers block
containers_block(metrics, inst) ==
    IF "running_containers" \notin DOMAIN metrics THEN Raised(<<>>, "KeyError")
    ELSE LET c == metrics["running_containers"]
             name == "aqua.running_containers"
         IN  IF "total" \notin DOMAIN c THEN Raised(<<>>, "KeyError")
             ELSE IF "unregistered" \notin DOMAIN c
             THEN Raised(<<GaugeEv(name, c["total"], gauge_tags(inst, <<"status", "all">>))>>,
                         "KeyError")
             ELSE Returned(
                    <<GaugeEv(name, c["total"], gauge_tags(inst, <<"status", "all">>)),
                      GaugeEv(name, c["unregistered"],
                              gauge_tags(inst, <<"status", "unregistered">>)),
                      GaugeEv(name, c["total"] - c["unregistered"],
                              gauge_tags(inst, <<"status", "registered">>))>>)

\* aqua.py:140-144: the disconnected enforcers block
enforcers_block(metrics, inst) ==
    IF ~HasPath(metrics, "hosts", "disconnected_count") THEN Raised(<<>>, "KeyError")
    ELSE Returned(<<GaugeEv("aqua.enforcers", metrics["hosts"]["disconnected_count"],
                            gauge_tags(inst, <<"status", "disconnected">>))>>)

\* _report_base_metrics                                  aqua.py:104-144
report_base_metrics(inst, tkn, served) ==
    LET q == perform_query(inst, DASHBOARD, tkn, served)
    IN  IF q.exc # ""
        THEN Returned(q.events \o <<LogEv("Failed to get base metrics", "")>>)
        ELSE AndThen(Returned(q.events),
             AndThen(registry_block("aqua.images", q.value, "images", inst),
             AndThen(registry_block("aqua.vulnerabilities", q.value, "vulnerabilities", inst),
             AndThen(containers_block(q.value, inst),
                     enforcers_block(q.value, inst)))))

\* _report_connected_enforcers                           aqua.py:155-164
report_connected_enforcers(inst, tkn, served) ==
    LET q == perform_query(inst, HOSTS, tkn, served)
    IN  IF q.exc # ""
        THEN Returned(q.events \o <<LogEv("Failed to get enforcer metrics", "")>>)
        ELSE IF "count" \notin DOMAIN q.value THEN Raised(q.events, "KeyError")
        ELSE Returned(q.events \o
                <<GaugeEv("aqua.enforcers", q.value["count"],
                          gauge_tags(inst, <<"status", "all">>))>>)

\* _report_status_metrics                                aqua.py:146-153
report_status_metrics(inst, tkn, metric_name, route, statuses, served) ==
    LET q == perform_query(inst, route, tkn, served)
    IN  IF q.exc # ""
        THEN Returned(q.events \o <<LogEv("Failed to get metrics", metric_name)>>)
        ELSE AndThen(Returned(q.events),
                     gauge_each(metric_name, q.value, statuses, "status", inst))

\* ----------------------------------------------------- initial states

\* The health signal and the gauges among the events: what a cycle hands
\* to the agent.
IsOutput(e) == e.ev \in {"service_check", "gauge"}

Outputs(tr) == SelectSeq(tr, IsOutput)

NoPrev == [has |-> FALSE, config |-> <<>>, login |-> "none", result |-> "none",
           out |-> <<>>]

Upstreams == {u \in [Routes -> UNION {Behaviours(r) : r \in Routes}] :
                 \A r \in Routes : u[r] \in Behaviours(r)}

InitLocals ==
    /\ grants = <<>>
    /\ cycle = [i \in Inst |-> 0]
    /\ pc = [i \in Inst |-> "idle"]
    /\ token = [i \in Inst |-> NoToken]
    /\ idx = [i \in Inst |-> 1]
    /\ loginRes = [i \in Inst |-> "none"]
    /\ result = [i \in Inst |-> "none"]
    /\ trace = [i \in Inst |-> <<>>]
    /\ startConfig = instance
    /\ prev = [i \in Inst |-> NoPrev]

\* One instance polled MaxCycles times, with any config and any upstream.
Init ==
    /\ \E c \in Configs("a") :
          instance = [i \in Inst |-> IF i = "a" THEN c ELSE FullConfig(i)]
    /\ upstream \in Upstreams
    /\ runsLeft = [i \in Inst |-> IF i = "a" THEN MaxCycles ELSE 0]
    /\ InitLocals

\* Every instance polled ConcCycles times, their cycles interleaved by the
\* scheduler, against a server whose endpoints all behave alike.
InitConc ==
    /\ instance = [i \in Inst |-> FullConfig(i)]
    /\ \E b \in Behaviours(HOSTS) : upstream = [r \in Routes |-> b]
    /\ runsLeft = [i \in Inst |-> ConcCycles]
    /\ InitLocals

\* ----------------------------------------------------------- actions

\* CheckStart that reads the tags with instance.setdefault("tags", [])
CheckStartSetdefault(i) ==
    /\ pc[i] \in {"idle", "done"}
    /\ runsLeft[i] > 0
    /\ runsLeft' = [runsLeft EXCEPT ![i] = @ - 1]
    /\ cycle' = [cycle EXCEPT ![i] = @ + 1]
    /\ prev' = [prev EXCEPT ![i] =
                 IF pc[i] = "done"
                 THEN [has |-> TRUE, config |-> startConfig[i], login |-> loginRes[i],
                       result |-> result[i], out |-> Outputs(trace[i])]
                 ELSE @]
    /\ startConfig' = [startConfig EXCEPT ![i] = instance[i]]
    /\ instance' = [instance EXCEPT ![i] =
                     IF "tags" \in DOMAIN @ THEN @
                     ELSE [k \in DOMAIN @ \cup {"tags"} |->
                             IF k = "tags" THEN <<>> ELSE @[k]]]
    /\ trace' = [trace EXCEPT ![i] = <<>>]
    /\ token' = [token EXCEPT ![i] = NoToken]
    /\ idx' = [idx EXCEPT ![i] = 1]
    /\ loginRes' = [loginRes EXCEPT ![i] = "none"]
    /\ IF validate_instance(instance[i])
       THEN /\ pc' = [pc EXCEPT ![i] = "done"]
            /\ result' = [result EXCEPT ![i] = "ConfigError"]
       ELSE /\ pc' = [pc EXCEPT ![i] = "login"]
            /\ result' = [result EXCEPT ![i] = "running"]
    /\ UNCHANGED <<upstream, grants>>

\* The scheduler calls check(instance): lines 26-29, up to and including
\* validate_instance.
CheckStart(i) ==
    /\ pc[i] \in {"idle", "done"}
    /\ runsLeft[i] > 0
    /\ runsLeft' = [runsLeft EXCEPT ![i] = @ - 1]
    /\ cycle' = [cycle EXCEPT ![i] = @ + 1]
    /\ prev' = [prev EXCEPT ![i] =
                 IF pc[i] = "done"
                 THEN [has |-> TRUE, config |-> startConfig[i], login |-> loginRes[i],
                       result |-> result[i], out |-> Outputs(trace[i])]
                 ELSE @]
    /\ startConfig' = [startConfig EXCEPT ![i] = instance[i]]
    /\ trace' = [trace EXCEPT ![i] = <<>>]
    /\ token' = [token EXCEPT ![i] = NoToken]
    /\ idx' = [idx EXCEPT ![i] = 1]
    /\ loginRes' = [loginRes EXCEPT ![i] = "none"]
    /\ IF validate_instance(instance[i])
       THEN \* the exception leaves check(): nothing was emitted or sent
            /\ pc' = [pc EXCEPT ![i] = "done"]
            /\ result' = [result EXCEPT ![i] = "ConfigError"]
       ELSE /\ pc' = [pc EXCEPT ![i] = "login"]
            /\ result' = [result EXCEPT ![i] = "running"]
    /\ UNCHANGED <<instance, upstream, grants>>

\* Lines 31-37: the login and the health signal.
GetToken(i) ==
    /\ pc[i] = "login"
    /\ \E outcome \in LoginOutcomes :
         LET r == get_aqua_token(instance[i], outcome, Len(grants) + 1)
             tags == instance_tags(instance[i])
             granted == r.sent # <<>> /\ outcome = "ok"
         IN  /\ grants' = IF granted THEN Append(grants, <<i, cycle[i]>>) ELSE grants
             /\ loginRes' = [loginRes EXCEPT ![i] =
                               IF r.sent = <<>> THEN "not_sent" ELSE outcome]
             /\ token' = [token EXCEPT ![i] = r.token]
             /\ IF r.exc = ""
                THEN /\ trace' = [trace EXCEPT ![i] =
                                   @ \o r.sent \o <<ServiceCheckEv("OK", tags)>>]
                     /\ pc' = [pc EXCEPT ![i] = "base"]
                     /\ UNCHANGED result
                ELSE /\ trace' = [trace EXCEPT ![i] =
                                   @ \o r.sent
                                     \o <<LogEv("Failed to get Aqua token", ""),
                                          ServiceCheckEv("CRITICAL", tags)>>]
                     /\ pc' = [pc EXCEPT ![i] = "done"]
                     /\ result' = [result EXCEPT ![i] = "returned"]
    /\ UNCHANGED <<instance, upstream, runsLeft, cycle, idx, startConfig, prev>>

\* What a reporting handler leaves behind: its events, then the next
\* handler, or the end of the cycle when it raised or was the last.
Handler(i, r, nextPc) ==
    /\ trace' = [trace EXCEPT ![i] = @ \o r.events]
    /\ IF r.exc # ""
       THEN /\ pc' = [pc EXCEPT ![i] = "done"]
            /\ result' = [result EXCEPT ![i] = r.exc]
            /\ token' = [token EXCEPT ![i] = NoToken]
       ELSE IF nextPc = "done"
       THEN /\ pc' = [pc EXCEPT ![i] = "done"]
            /\ result' = [result EXCEPT ![i] = "returned"]
            /\ token' = [token EXCEPT ![i] = NoToken]
       ELSE /\ pc' = [pc EXCEPT ![i] = nextPc]
            /\ UNCHANGED <<result, token>>
    /\ UNCHANGED <<instance, upstream, grants, runsLeft, cycle, loginRes,
                   startConfig, prev>>

\* Line 38
ReportBase(i) ==
    /\ pc[i] = "base"
    /\ Handler(i, report_base_metrics(instance[i], token[i], upstream[DASHBOARD]),
               "enforcers")
    /\ UNCHANGED idx

\* Line 39
ReportEnforcers(i) ==
    /\ pc[i] = "enforcers"
    /\ Handler(i, report_connected_enforcers(instance[i], token[i], upstream[HOSTS]),
               "status")
    /\ UNCHANGED idx

\* Lines 70-71: one turn of the loop over status_metrics
ReportStatus(i) ==
    /\ pc[i] = "status"
    /\ LET m == status_metrics[idx[i]]
           last == idx[i] = Len(status_metrics)
       IN  /\ Handler(i, report_status_metrics(instance[i], token[i], m.metric_name,
                                               m.route, m.statuses, upstream[m.route]),
                      IF last THEN "done" ELSE "status")
           /\ idx' = [idx EXCEPT ![i] = IF last THEN @ ELSE @ + 1]

Next ==
    \E i \in Inst :
        \/ CheckStart(i)
        \/ GetToken(i)
        \/ ReportBase(i)
        \/ ReportEnforcers(i)
        \/ ReportStatus(i)

Spec == Init /\ [][Next]_vars

SpecConc == InitConc /\ [][Next]_vars

\* ------------------------------------------------- reading the trace

Done(i) == pc[i] = "done"

Required == {"url", "api_user", "password"}

ValidConfig(c) == Required \subseteq DOMAIN c

BaseTags(c) == IF "tags" \in DOMAIN c THEN c["tags"] ELSE <<>>

Events(tr, kind) == SelectSeq(tr, LAMBDA e : e.ev = kind)

EventSet(tr, kind) == {tr[p] : p \in {q \in 1..Len(tr) : tr[q].ev = kind}}

GaugesNamed(tr, name) == SelectSeq(tr, LAMBDA e : e.ev = "gauge" /\ e.name = name)

Called(tr, route) == \E e \in EventSet(tr, "query") : e.name = route

Fetched(tr, route) == \E e \in EventSet(tr, "GET") : e.name = route

Complete(route) == upstream[route] \in {"ok", "ok2"}

Failing(route) == upstream[route] \in {"http_500", "timeout"}

\* The tables of the specification (section 4.3), external tag per key.
SeverityTable ==
    {<<"total", "all">>, <<"high", "high">>, <<"medium", "medium">>, <<"ok", "ok">>,
     <<"low", "low">>}

AuditTable ==
    {<<"total", "all">>, <<"success", "success">>, <<"blocked", "blocked">>,
     <<"detect", "detect">>, <<"alert", "alert">>}

ScanQueueTable ==
    {<<"total", "all">>, <<"failed", "failed">>, <<"in_progress", "in_progress">>,
     <<"finished", "finished">>, <<"pending", "pending">>}

\* One gauge per key of the table: the field unmodified, the base tags
\* plus dim:external.
ExpectedFamily(name, d, table, dim, c) ==
    {GaugeEv(name, d[p[1]], BaseTags(c) \o << <<dim, p[2]>> >>) : p \in table}

ExpectedContainers(d, c) ==
    {GaugeEv("aqua.running_containers", d["total"], BaseTags(c) \o << <<"status", "all">> >>),
     GaugeEv("aqua.running_containers", d["unregistered"],
             BaseTags(c) \o << <<"status", "unregistered">> >>),
     GaugeEv("aqua.running_containers", d["total"] - d["unregistered"],
             BaseTags(c) \o << <<"status", "registered">> >>)}

\* Every gauge the specification expects of a route answered with body.
ExpectedOf(route, body, c) ==
    CASE route = DASHBOARD ->
            ExpectedFamily("aqua.images", body["registry_counts"]["images"],
                           SeverityTable, "severity", c)
            \cup ExpectedFamily("aqua.vulnerabilities",
                                body["registry_counts"]["vulnerabilities"],
                                SeverityTable, "severity", c)
            \cup ExpectedContainers(body["running_containers"], c)
            \cup {GaugeEv("aqua.enforcers", body["hosts"]["disconnected_count"],
                          BaseTags(c) \o << <<"status", "disconnected">> >>)}
      [] route = HOSTS ->
            {GaugeEv("aqua.enforcers", body["count"],
                     BaseTags(c) \o << <<"status", "all">> >>)}
      [] route = AUDIT ->
            ExpectedFamily("aqua.audit.access", body, AuditTable, "status", c)
      [] OTHER ->
            ExpectedFamily("aqua.scan_queue", body, ScanQueueTable, "status", c)

\* Whether gauge e is one of route's families.
BelongsTo(e, route) ==
    LET disconnected ==
            e.name = "aqua.enforcers" /\ e.tags # <<>>
            /\ e.tags[Len(e.tags)] = <<"status", "disconnected">>
    IN  CASE route = DASHBOARD ->
                e.name \in {"aqua.images", "aqua.vulnerabilities",
                            "aqua.running_containers"}
                \/ disconnected
          [] route = HOSTS -> e.name = "aqua.enforcers" /\ ~disconnected
          [] route = AUDIT -> e.name = "aqua.audit.access"
          [] OTHER -> e.name = "aqua.scan_queue"

\* ------------------------------------------------------------ claims

\* C1: after a successful login, a fetched response that lacks an expected
\* field costs only its own metric family: the cycle returns normally, and
\* every other endpoint that answers completely is fetched and all of its
\* gauges are emitted.
C1_MissingFieldContained ==
    \A i \in Inst :
        (Done(i) /\ loginRes[i] = "ok" /\ \E r \in Routes : upstream[r] = "nofield")
        => /\ result[i] = "returned"
           /\ \A r \in Routes :
                Complete(r)
                => /\ Fetched(trace[i], r)
                   /\ ExpectedOf(r, Body(r, upstream[r]), startConfig[i])
                        \subseteq EventSet(trace[i], "gauge")

\* C2: a cycle with a valid config whose login fails (HTTP error, timeout,
\* no token in the response) emits exactly one aqua.can_connect signal, with
\* value CRITICAL, emits no gauge, calls no data endpoint, and ends.
C2_LoginFailure ==
    \A i \in Inst :
        (ValidConfig(startConfig[i]) /\ loginRes[i] \in {"http_401", "timeout", "no_token"})
        => /\ Done(i)
           /\ result[i] = "returned"
           /\ Len(Events(trace[i], "service_check")) = 1
           /\ \A e \in EventSet(trace[i], "service_check") :
                e.name = "aqua.can_connect" /\ e.text = "CRITICAL"
           /\ Events(trace[i], "gauge") = <<>>
           /\ Events(trace[i], "GET") = <<>>
           /\ Events(trace[i], "query") = <<>>

C2_Witness ==
    \E i \in Inst :
        /\ Done(i)
        /\ loginRes[i] = "no_token"
        /\ Len(Events(trace[i], "POST")) = 1
        /\ Len(Events(trace[i], "service_check")) = 1

\* C3, as stated: every cycle, whatever its config, emits exactly one
\* aqua.can_connect signal, OK after a successful login and CRITICAL
\* otherwise, tagged with exactly the instance's base tags.
C3_AlwaysOneSignal ==
    \A i \in Inst :
        Done(i)
        => /\ Len(Events(trace[i], "service_check")) = 1
           /\ \A e \in EventSet(trace[i], "service_check") :
                /\ e.name = "aqua.can_connect"
                /\ e.text = IF loginRes[i] = "ok" THEN "OK" ELSE "CRITICAL"
                /\ e.tags = BaseTags(startConfig[i])

\* C3, amended: every cycle whose config holds url, api_user and password
\* emits exactly one aqua.can_connect signal, OK after a successful login
\* and CRITICAL otherwise, tagged with exactly the instance's base tags; a
\* cycle whose config lacks one of the three emits none.
C3_OneSignalWhenConfigValid ==
    \A i \in Inst :
        Done(i)
        => IF ValidConfig(startConfig[i])
           THEN /\ Len(Events(trace[i], "service_check")) = 1
                /\ \A e \in EventSet(trace[i], "service_check") :
                     /\ e.name = "aqua.can_connect"
                     /\ e.text = IF loginRes[i] = "ok" THEN "OK" ELSE "CRITICAL"
                     /\ e.tags = BaseTags(startConfig[i])
           ELSE Events(trace[i], "service_check") = <<>>

C3_Witness ==
    \E i \in Inst :
        /\ Done(i)
        /\ ValidConfig(startConfig[i])
        /\ "tags" \in DOMAIN startConfig[i]
        /\ loginRes[i] = "ok"
        /\ \E e \in EventSet(trace[i], "service_check") :
             e.text = "OK" /\ e.tags = startConfig[i]["tags"]

\* C4: after a successful login, whichever of the four data endpoints fail
\* (HTTP error, timeout), every endpoint that answers completely is still
\* fetched and all of its gauges are emitted, no gauge of a failed endpoint
\* is emitted, and the health signal of the cycle is OK.
C4_EndpointsIndependent ==
    \A i \in Inst :
        (Done(i) /\ loginRes[i] = "ok" /\ \A r \in Routes : Complete(r) \/ Failing(r))
        => /\ \A e \in EventSet(trace[i], "service_check") : e.text = "OK"
           /\ \A r \in Routes :
                /\ Complete(r)
                   => /\ Fetched(trace[i], r)
                      /\ ExpectedOf(r, Body(r, upstream[r]), startConfig[i])
                           \subseteq EventSet(trace[i], "gauge")
                /\ Failing(r)
                   => \A e \in EventSet(trace[i], "gauge") : ~BelongsTo(e, r)

\* C5: a cycle whose config omits url, api_user or password fails with the
\* configuration error, and no login POST and no GET is issued in it.
C5_ConfigErrorBeforeNetwork ==
    \A i \in Inst :
        (cycle[i] > 0 /\ ~ValidConfig(startConfig[i]))
        => /\ Done(i)
           /\ result[i] = "ConfigError"
           /\ Events(trace[i], "POST") = <<>>
           /\ Events(trace[i], "GET") = <<>>

C5_Witness ==
    \E i \in Inst :
        /\ Done(i)
        /\ "url" \notin DOMAIN startConfig[i]
        /\ {"api_user", "password"} \subseteq DOMAIN startConfig[i]
        /\ result[i] = "ConfigError"

\* The order of the endpoints in the specification (section 4.2).
EndpointOrder == <<DASHBOARD, HOSTS, AUDIT, SCANQUEUE>>

RoutesOf(tr, kind) == [p \in 1..Len(Events(tr, kind)) |-> Events(tr, kind)[p].name]

IsPrefix(s, t) == Len(s) <= Len(t) /\ \A p \in 1..Len(s) : s[p] = t[p]

Position(route) == CHOOSE p \in 1..Len(EndpointOrder) : EndpointOrder[p] = route

\* C6: within a cycle nothing of the metric extraction (no call of a data
\* endpoint, no GET, no gauge) precedes the cycle's aqua.can_connect signal,
\* and the data endpoints are processed in the order dashboard, hosts,
\* audit access_totals, scanqueue summary.
C6_SignalFirstThenOrder ==
    \A i \in Inst :
        LET tr == trace[i]
        IN  /\ \A p \in 1..Len(tr) :
                 tr[p].ev \in {"query", "GET", "gauge"}
                 => \E q \in 1..(p - 1) : tr[q].ev = "service_check"
            /\ IsPrefix(RoutesOf(tr, "query"), EndpointOrder)
            /\ \A p, q \in 1..Len(RoutesOf(tr, "GET")) :
                 p < q => Position(RoutesOf(tr, "GET")[p]) < Position(RoutesOf(tr, "GET")[q])
            /\ (Done(i) /\ result[i] = "returned" /\ loginRes[i] = "ok")
               => RoutesOf(tr, "query") = EndpointOrder

C6_Witness ==
    \E i \in Inst :
        /\ Done(i)
        /\ trace[i] # <<>>
        /\ trace[i][2].ev = "service_check"
        /\ RoutesOf(trace[i], "query") = EndpointOrder

\* Exactly the expected gauges of a family, one per key.
FamilyOk(tr, name, d, table, dim, c) ==
    /\ Len(GaugesNamed(tr, name)) = Cardinality(table)
    /\ {GaugesNamed(tr, name)[p] : p \in 1..Len(GaugesNamed(tr, name))}
         = ExpectedFamily(name, d, table, dim, c)

\* C7: after a successful login, for each family with a status-mapping
\* table (aqua.images and aqua.vulnerabilities of the dashboard,
\* aqua.audit.access, aqua.scan_queue) whose endpoint was called and answers
\* with every key of the table, the cycle emits exactly one gauge per key:
\* the field unmodified, tagged with the base tags plus severity:{external}
\* or status:{external}.
C7_OneGaugePerKey ==
    \A i \in Inst :
        (Done(i) /\ loginRes[i] = "ok")
        => LET tr == trace[i]
               c == startConfig[i]
           IN  /\ (Called(tr, DASHBOARD) /\ Complete(DASHBOARD))
                  => LET rc == Body(DASHBOARD, upstream[DASHBOARD])["registry_counts"]
                     IN  /\ FamilyOk(tr, "aqua.images", rc["images"], SeverityTable,
                                     "severity", c)
                         /\ FamilyOk(tr, "aqua.vulnerabilities", rc["vulnerabilities"],
                                     SeverityTable, "severity", c)
               /\ (Called(tr, AUDIT) /\ Complete(AUDIT))
                  => FamilyOk(tr, "aqua.audit.access", Body(AUDIT, upstream[AUDIT]),
                              AuditTable, "status", c)
               /\ (Called(tr, SCANQUEUE) /\ Complete(SCANQUEUE))
                  => FamilyOk(tr, "aqua.scan_queue", Body(SCANQUEUE, upstream[SCANQUEUE]),
                              ScanQueueTable, "status", c)

\* C8: after a successful login and a dashboard answer with
\* running_containers = {total: T, unregistered: U}, the cycle emits exactly
\* three aqua.running_containers gauges: T tagged status:all, U tagged
\* status:unregistered and T - U tagged status:registered.
C8_RegisteredDerived ==
    \A i \in Inst :
        (Done(i) /\ loginRes[i] = "ok" /\ Called(trace[i], DASHBOARD)
            /\ Complete(DASHBOARD))
        => LET g == GaugesNamed(trace[i], "aqua.running_containers")
           IN  /\ Len(g) = 3
               /\ {g[p] : p \in 1..Len(g)}
                    = ExpectedContainers(
                        Body(DASHBOARD, upstream[DASHBOARD])["running_containers"],
                        startConfig[i])

\* C9: a cycle leaves the instance config, its tags included, as it
\* received it, and two consecutive cycles of an instance given the same
\* config, the same login answer and the same endpoint answers hand over
\* the same health signal and the same gauges.
C9_StatelessDeterministic ==
    \A i \in Inst :
        /\ cycle[i] > 0 => instance[i] = startConfig[i]
        /\ (Done(i) /\ prev[i].has /\ prev[i].login = loginRes[i])
           => /\ prev[i].config = startConfig[i]
              /\ prev[i].out = Outputs(trace[i])
              /\ prev[i].result = result[i]

C9_Witness ==
    \E i \in Inst :
        /\ Done(i)
        /\ prev[i].has
        /\ prev[i].login = "ok"
        /\ loginRes[i] = "ok"
        /\ prev[i].out # <<>>
        /\ prev[i].out = Outputs(trace[i])

\* Token t was granted to the login of the current cycle of i.
Owns(i, t) == t \in 1..Len(grants) /\ grants[t] = <<i, cycle[i]>>

\* C10: a cycle that reaches the login sends exactly one login POST; every
\* call of a data endpoint in a cycle is made after that cycle's login
\* succeeded and carries the token granted to that login of that instance,
\* however the cycles of the instances interleave; and no token outlives
\* the cycle that obtained it.
C10_TokenOwnership ==
    \A i \in Inst :
        /\ Len(Events(trace[i], "POST")) <= 1
        /\ pc[i] \in {"base", "enforcers", "status"}
           => Len(Events(trace[i], "POST")) = 1 /\ loginRes[i] = "ok"
        /\ (Done(i) /\ result[i] # "ConfigError") => Len(Events(trace[i], "POST")) = 1
        /\ \A e \in EventSet(trace[i], "query") \cup EventSet(trace[i], "GET") :
             /\ loginRes[i] = "ok"
             /\ Len(e.auth) = 2 /\ e.auth[1] = "Bearer" /\ Owns(i, e.auth[2])
        /\ token[i] # NoToken => Owns(i, token[i])
        /\ pc[i] \in {"idle", "login", "done"} => token[i] = NoToken

C10_Witness ==
    \E i, j \in Inst :
        /\ i # j
        /\ pc[i] = "status" /\ pc[j] = "status"
        /\ cycle[i] > 1
        /\ token[i] # token[j]
        /\ Called(trace[i], HOSTS) /\ Called(trace[j], HOSTS)

====
